---- MODULE Spec2Model ----
(***************************************************************************)
(* Mahi Fashion: the order / invoice / notification pipeline of the two    *)
(* Streamlit programs of the repository, Meet_app.py and                   *)
(* fashion_store_app.py.                                                   *)
(*                                                                         *)
(* A Streamlit program is re-run from the top on every user event; the     *)
(* only state that survives a run is st.session_state and the files on     *)
(* disk.  Each action below is one run of the script handling one event.   *)
(*                                                                         *)
(* Text is a sequence of one-character strings, so that strip() and        *)
(* split() are computed and not assumed.  Money is held in hundredths of a *)
(* rupee: with whole-rupee prices and whole-percent rates every product    *)
(* x * rate / 100 is exact, which is the arithmetic of the source up to    *)
(* floating-point rounding.                                                *)
(***************************************************************************)
EXTENDS Integers, Sequences, FiniteSets, TLC

VARIABLES
    app,            \* which program this session runs: "meet" | "store" | "sizes" | "mail"
    cart,           \* st.session_state.cart
    last_checkout,  \* st.session_state.last_checkout (Meet_app): None or Some(bundle)
    settings_json,  \* settings.json: None (no file) or Some(settings)
    menu_xlsx,      \* Product_Details_Cleaned.xlsx: the catalog rows
    sales_csv,      \* sales_records.csv (Meet_app): None or Some(csv file)
    orders_csv,     \* orders.csv (fashion_store_app)
    daily_csv,      \* daily_orders/orders_<today>.csv (fashion_store_app)
    invoices,       \* invoice files on disk, by file name
    form,           \* fashion_store_app: the page shown and its customer_* text inputs
    env,            \* fashion_store_app: EMAIL_ADDRESS / EMAIL_PASSWORD; reportlab installed
    now,            \* the wall clock, in seconds
    smtp,           \* connections opened to the mail relay, and messages it accepted
    persisted,      \* checkouts that passed validation and went on to persist
    ev,             \* the event the last run handled, with its inputs and outcome
    hist,           \* history: how often the cart, as it is now, has been persisted, and
                    \* how often the catalog file has been written
    fn              \* a pure function under test: its arguments and its result

vars == <<app, cart, last_checkout, settings_json, menu_xlsx, sales_csv, orders_csv,
          daily_csv, invoices, form, env, now, smtp, persisted, ev, hist, fn>>

----------------------------------------------------------------------------
(* Bounds of the model *)

MaxCart == 2        \* lines in a cart
MaxOrders == 1      \* checkouts that reach persistence in one behaviour
MaxTime == 1        \* seconds the clock advances
MaxMail == 1        \* relay connections in one behaviour
MaxLen == 4         \* characters of a raw Size string given to parse_sizes
MaxRepeat == 2      \* checkouts that reach persistence in a session of repeated orders
MaxMenu == 2        \* rows of the catalog after "Add Product"
MaxCatalogWrites == 2   \* writes of the catalog file in one behaviour

----------------------------------------------------------------------------
(* Python values *)

None == <<>>
Some(x) == <<x>>
Get(o) == o[1]

\* a str, from a TLA+ string literal of up to four characters
T0 == <<>>
T1(a) == <<a>>
T2(a, b) == <<a, b>>
T3(a, b, c) == <<a, b, c>>
T4(a, b, c, d) == <<a, b, c, d>>

\* a cell of a CSV file or a DataFrame: text or a number
Str(s) == <<"str", s>>
Num(n) == <<"num", n>>
\* NaN in a DataFrame; written by to_csv, and read back by read_csv, as the empty field
NA == Str(T0)

IsWs(c) == c = " "

RECURSIVE lstrip(_)
lstrip(s) == IF s # <<>> /\ IsWs(Head(s)) THEN lstrip(Tail(s)) ELSE s

RECURSIVE rstrip(_)
rstrip(s) == IF s # <<>> /\ IsWs(s[Len(s)]) THEN rstrip(SubSeq(s, 1, Len(s) - 1)) ELSE s

\* str.strip()
strip(s) == rstrip(lstrip(s))

\* str.split(d): the pieces between the occurrences of d, empty pieces included
RECURSIVE split(_, _)
split(s, d) ==
    IF \A i \in 1..Len(s) : s[i] # d
    THEN <<s>>
    ELSE LET k == CHOOSE i \in 1..Len(s) : s[i] = d /\ \A j \in 1..(i - 1) : s[j] # d
         IN  <<SubSeq(s, 1, k - 1)>> \o split(SubSeq(s, k + 1, Len(s)), d)

\* [x.strip() for x in pieces if x.strip()]
RECURSIVE stripped_nonempty(_)
stripped_nonempty(pieces) ==
    IF pieces = <<>> THEN <<>>
    ELSE (IF strip(Head(pieces)) # <<>> THEN <<strip(Head(pieces))>> ELSE <<>>)
         \o stripped_nonempty(Tail(pieces))

Contains(s, d) == \E i \in 1..Len(s) : s[i] = d

FREE == T4("F", "r", "e", "e")

\* mutation of parse_sizes: the hyphen is looked for before the comma
parse_sizes_hyphen_first(s_raw) ==
    LET s == strip(s_raw)
    IN  IF s = <<>> THEN <<FREE>>
        ELSE IF Contains(s, "-")
             THEN LET parts == stripped_nonempty(split(s, "-"))
                  IN  IF parts # <<>> THEN parts ELSE <<s>>
        ELSE IF Contains(s, ",")
             THEN stripped_nonempty(split(s, ","))
        ELSE <<s>>

\* parse_sizes(s_raw)
parse_sizes(s_raw) ==
    LET s == strip(s_raw)
    IN  IF s = <<>> THEN <<FREE>>
        ELSE IF Contains(s, ",")
             THEN stripped_nonempty(split(s, ","))
        ELSE IF Contains(s, "-")
             THEN LET parts == stripped_nonempty(split(s, "-"))
                  IN  IF parts # <<>> THEN parts ELSE <<s>>
        ELSE <<s>>

----------------------------------------------------------------------------
(* CSV files and DataFrames *)

Range(q) == {q[i] : i \in 1..Len(q)}

IndexOf(q, x) == CHOOSE i \in 1..Len(q) : q[i] = x

RECURSIVE SumSeq(_)
SumSeq(q) == IF q = <<>> THEN 0 ELSE Head(q) + SumSeq(Tail(q))

\* a CSV file is [header |-> column names, lines |-> the data lines, each a sequence of
\* fields]; a DataFrame is [cols |-> column names, rows |-> one function col -> cell per row]

\* pd.read_csv: the fields of each line under the header's names, left to right; a
\* missing or empty field is NaN
read_csv(f) ==
    [cols |-> f.header,
     rows |-> [i \in 1..Len(f.lines) |->
                 [c \in Range(f.header) |->
                    IF IndexOf(f.header, c) <= Len(f.lines[i])
                    THEN f.lines[i][IndexOf(f.header, c)]
                    ELSE NA]]]

\* pd.DataFrame(rows) of dicts that all have the keys `keys`, in that order
DataFrame(keys, dicts) == [cols |-> keys, rows |-> dicts]

Reindex(row, cols) == [c \in Range(cols) |-> IF c \in DOMAIN row THEN row[c] ELSE NA]

\* pd.concat([df_old, df_new], ignore_index=True): the columns of the old frame, followed
\* by those only the new one has; every row gets NaN in the columns it lacks
pd_concat(df_old, df_new) ==
    LET cols == df_old.cols \o SelectSeq(df_new.cols, LAMBDA c : c \notin Range(df_old.cols))
    IN  [cols |-> cols,
         rows |-> [i \in 1..Len(df_old.rows) |-> Reindex(df_old.rows[i], cols)] \o
                  [i \in 1..Len(df_new.rows) |-> Reindex(df_new.rows[i], cols)]]

\* DataFrame.to_csv(index=False): the header line, then one line per row
to_csv(df) ==
    [header |-> df.cols,
     lines |-> [i \in 1..Len(df.rows) |-> [j \in 1..Len(df.cols) |-> df.rows[i][df.cols[j]]]]]

RowCount(file) == IF file = None THEN 0 ELSE Len(Get(file).lines)

----------------------------------------------------------------------------
(* Meet_app.py *)

ADMIN_PASSWORD == "admin123"

SALE_COLS == <<"OrderID", "Date", "Time", "Item", "Size", "Price", "Customer", "Phone",
               "Subtotal", "Tax", "Discount", "GrandTotal">>

\* the first rows of create_sample_menu(): Item, Size, Price
create_sample_menu ==
    << [Item |-> "Kurti", Size |-> T4("L", "-", "X", "L"), Price |-> 615],
       [Item |-> "Saree", Size |-> FREE, Price |-> 1200] >>

\* load_settings(): the defaults, updated by the file when there is one
DefaultSettings ==
    [tax_rate |-> 5, default_discount |-> 0, sender_email |-> T0, sender_password |-> T0]

load_settings == IF settings_json = None THEN DefaultSettings ELSE Get(settings_json)

\* mutation of order_id_at: the timestamp stops at the minute
order_id_at_minute(t) == <<"ORD", 0, 0>>

\* f"ORD{tz_now().strftime('%Y%m%d%H%M%S')}" at second t: "ORD", then the timestamp in
\* fixed-width, zero-padded decimal digits (the two digits of the seconds are kept)
order_id_at(t) == <<"ORD", t \div 10, t % 10>>
Date(t) == <<"date", t>>
Time(t) == <<"time", t>>

\* mutation of subtotal_of: each line is priced by the catalog row of its name
subtotal_of_catalog_price(c) ==
    100 * SumSeq([i \in 1..Len(c) |->
                    menu_xlsx[CHOOSE k \in 1..Len(menu_xlsx) : menu_xlsx[k].Item = c[i].item].Price])

\* tab_cart: subtotal, tax, discount and grand of the cart, in hundredths
subtotal_of(c) == 100 * SumSeq([i \in 1..Len(c) |-> c[i].price])

\* mutation of totals_of: the discount is added
totals_grand_adds_discount(c, s) ==
    LET subtotal == subtotal_of(c)
        tax == (subtotal * s.tax_rate) \div 100
        discount == (subtotal * s.default_discount) \div 100
    IN  [subtotal |-> subtotal, tax |-> tax, discount |-> discount,
         grand |-> subtotal + tax + discount]

\* tab_cart: the totals of cart c under settings s
totals_of(c, s) ==
    LET subtotal == subtotal_of(c)
        tax == (subtotal * s.tax_rate) \div 100
        discount == (subtotal * s.default_discount) \div 100
    IN  [subtotal |-> subtotal, tax |-> tax, discount |-> discount,
         grand |-> subtotal + tax - discount]

\* mutation of sale_rows: one row for the order, from its first line
sale_rows_one_per_order(order_id, item_rows, totals, customer, t) ==
    [i \in 1..1 |->
       [c \in Range(SALE_COLS) |->
          CASE c = "OrderID" -> order_id
            [] c = "Date" -> Date(t)
            [] c = "Time" -> Time(t)
            [] c = "Item" -> Str(item_rows[1].item)
            [] c = "Size" -> Str(item_rows[1].size)
            [] c = "Price" -> Num(item_rows[1].price)
            [] c = "Customer" -> Str(customer.name)
            [] c = "Phone" -> Str(customer.phone)
            [] c = "Subtotal" -> Num(totals.subtotal)
            [] c = "Tax" -> Num(totals.tax)
            [] c = "Discount" -> Num(totals.discount)
            [] c = "GrandTotal" -> Num(totals.grand)]]

\* save_sale: the rows it builds, one per cart line
sale_rows(order_id, item_rows, totals, customer, t) ==
    [i \in 1..Len(item_rows) |->
       [c \in Range(SALE_COLS) |->
          CASE c = "OrderID" -> order_id
            [] c = "Date" -> Date(t)
            [] c = "Time" -> Time(t)
            [] c = "Item" -> Str(item_rows[i].item)
            [] c = "Size" -> Str(item_rows[i].size)
            [] c = "Price" -> Num(item_rows[i].price)
            [] c = "Customer" -> Str(customer.name)
            [] c = "Phone" -> Str(customer.phone)
            [] c = "Subtotal" -> Num(totals.subtotal)
            [] c = "Tax" -> Num(totals.tax)
            [] c = "Discount" -> Num(totals.discount)
            [] c = "GrandTotal" -> Num(totals.grand)]]

\* save_sale: the new content of sales_records.csv
save_sale(file, order_id, item_rows, totals, customer, t) ==
    LET df_new == DataFrame(SALE_COLS, sale_rows(order_id, item_rows, totals, customer, t))
        df_final == IF file # None THEN pd_concat(read_csv(Get(file)), df_new) ELSE df_new
    IN  Some(to_csv(df_final))

\* build_invoice_excel: the workbook (Items sheet, InvoiceMeta sheet) and its path
build_invoice_excel(order_id, item_rows, totals, customer, t) ==
    [path |-> <<"Invoice", order_id>>,
     bytes |-> [Items |-> item_rows,
                InvoiceMeta |-> [OrderID |-> order_id, Date |-> Date(t), Time |-> Time(t),
                                 Customer |-> customer.name, Phone |-> customer.phone,
                                 Email |-> customer.email, Address |-> customer.addr,
                                 Subtotal |-> totals.subtotal, Tax |-> totals.tax,
                                 Discount |-> totals.discount,
                                 GrandTotal |-> totals.grand]]]

\* a file written under a path replaces the file that had it
WriteFile(dir, f) == {g \in dir : g.path # f.path} \cup {f}

\* mutation of build_receipt_pdf: the ImportError is not caught
build_receipt_pdf_raises(order_id, bill_rows, totals, cust) ==
    IF ~env.reportlab
    THEN [raised |-> TRUE, value |-> None]
    ELSE [raised |-> FALSE,
          value |-> Some([order_id |-> order_id,
                          lines |-> IF Len(bill_rows) > 1 THEN Len(bill_rows) ELSE 1,
                          grand |-> totals.grand])]

\* build_receipt_pdf: None when reportlab cannot be imported, else the page
build_receipt_pdf(order_id, bill_rows, totals, cust) ==
    IF ~env.reportlab
    THEN [raised |-> FALSE, value |-> None]
    ELSE [raised |-> FALSE,
          value |-> Some([order_id |-> order_id,
                          lines |-> IF Len(bill_rows) > 1 THEN Len(bill_rows) ELSE 1,
                          grand |-> totals.grand])]

\* mutation of send_email_receipt: the connection is opened before the checks
send_email_receipt_connects_first(to_email, sender_email, sender_password, relay_ok) ==
    IF to_email = None \/ Get(to_email) = T0
    THEN [ret |-> FALSE, connected |-> TRUE, sent |-> FALSE, msg |-> "Customer email is empty."]
    ELSE IF sender_email = T0 \/ sender_password = T0
    THEN [ret |-> FALSE, connected |-> TRUE, sent |-> FALSE,
          msg |-> "Sender email credentials are missing (set in Admin Panel)."]
    ELSE IF relay_ok
    THEN [ret |-> TRUE, connected |-> TRUE, sent |-> TRUE, msg |-> ""]
    ELSE [ret |-> FALSE, connected |-> TRUE, sent |-> FALSE, msg |-> "Failed to send email"]

\* send_email_receipt: what it returns, whether it opened a connection to the relay, and
\* the error it showed.  relay_ok: the relay accepts the login and the message
send_email_receipt(to_email, sender_email, sender_password, relay_ok) ==
    IF to_email = None \/ Get(to_email) = T0
    THEN [ret |-> FALSE, connected |-> FALSE, sent |-> FALSE, msg |-> "Customer email is empty."]
    ELSE IF sender_email = T0 \/ sender_password = T0
    THEN [ret |-> FALSE, connected |-> FALSE, sent |-> FALSE,
          msg |-> "Sender email credentials are missing (set in Admin Panel)."]
    ELSE IF relay_ok
    THEN [ret |-> TRUE, connected |-> TRUE, sent |-> TRUE, msg |-> ""]
    ELSE [ret |-> FALSE, connected |-> TRUE, sent |-> FALSE, msg |-> "Failed to send email"]

----------------------------------------------------------------------------
(* Inputs *)

ASHA == T4("A", "s", "h", "a")
PHONE == T2("9", "8")
MAIL == T3("a", "@", "x")
PUNE == T4("P", "u", "n", "e")
TXN == T3("T", "X", "N")

\* What a customer submits at checkout.  pay_method and pay_ref are the payment method
\* ("cod": cash on delivery, "upi": manual transfer) and the payment reference the
\* customer has in mind; neither program has an input for them.
Input(n, p, e, a, m, r) ==
    [name |-> n, phone |-> p, email |-> e, addr |-> a, pay_method |-> m, pay_ref |-> r]

CheckoutInputs ==
    { Input(ASHA, PHONE, MAIL, PUNE, "cod", T0),
      Input(ASHA, PHONE, MAIL, PUNE, "upi", T0),
      Input(ASHA, PHONE, MAIL, PUNE, "upi", TXN),
      Input(ASHA, PHONE, T0, T0, "cod", T0),
      Input(T0, PHONE, MAIL, PUNE, "cod", T0),
      Input(ASHA, T0, MAIL, PUNE, "cod", T0),
      Input(ASHA, PHONE, MAIL, T1(" "), "cod", T0),
      Input(T0, T0, T0, T0, "cod", T0) }

\* the settings an administrator saves
SettingsInputs ==
    { [tax_rate |-> 10, default_discount |-> 20, sender_email |-> MAIL,
       sender_password |-> T2("p", "w")] }

Passwords == {"", "admin123", "letmein"}

\* sales_records.csv as an earlier version of the program left it
LegacySales ==
    [header |-> <<"OrderID", "Item", "Amount">>,
     lines |-> << <<Str(T2("A", "1")), Str(T1("K")), Num(61500)>> >>]

\* orders.csv as an earlier version of the program left it
LegacyOrders ==
    [header |-> <<"Name", "Phone", "Total">>,
     lines |-> << <<Str(ASHA), Str(PHONE), Num(20)>> >>]

\* the quantities a customer enters in the number input (0..10 in the source)
Qtys == {0, 2}

\* the values typed into a text input of the checkout page
Typed == {T0, T1(" "), PUNE}

\* the order files whose open() fails during one save_order
Failures == {{}, {"daily"}, {"master"}}

\* io: the files a run tried to write, and those whose write failed
Event(kind, input, msg) ==
    [kind |-> kind, input |-> input, msg |-> msg, attempted |-> {}, failed |-> {}]

----------------------------------------------------------------------------
(* Meet_app.py: one run of the script per event *)

\* What a checkout reads from the clock: the second of the previous checkout, or a later
\* one.  Nothing else reads the clock, so the first checkout is at second 0.
ClockReads == IF persisted = 0 THEN {now} ELSE {t \in {now, now + 1} : t <= MaxTime}

\* products = menu_df.to_dict(orient="records"), the catalog as load_menu() reads it
products == menu_xlsx

\* tab_cart: menu_df[menu_df['Item'] == item['item']].iloc[0] finds a row
LookupOk(line) == \E i \in 1..Len(products) : products[i].Item = line.item

\* tab_cart renders the cart lines, the totals and the checkout form
CartViewShown ==
    /\ last_checkout = None
    /\ cart # <<>>

\* tab_shop: the "Add <item>" button of product idx with size sel selected
MeetAdd(idx, sel) ==
    /\ app = "meet"
    /\ Len(cart) < MaxCart
    /\ sel \in Range(parse_sizes(products[idx].Size))
    /\ cart' = Append(cart, [item |-> products[idx].Item, size |-> sel,
                             price |-> products[idx].Price])
    /\ hist' = [hist EXCEPT !.placed = 0]
    /\ ev' = Event("idle", None, "")
    /\ UNCHANGED <<app, last_checkout, settings_json, menu_xlsx, sales_csv, orders_csv,
                   daily_csv, invoices, form, env, now, smtp, persisted, fn>>

\* tab_cart: the "Delete" button of line i
MeetDelete(i) ==
    /\ app = "meet"
    /\ CartViewShown
    /\ i \in 1..Len(cart)
    /\ \A j \in 1..i : LookupOk(cart[j])
    /\ cart' = [j \in 1..(Len(cart) - 1) |-> IF j < i THEN cart[j] ELSE cart[j + 1]]
    /\ hist' = [hist EXCEPT !.placed = 0]
    /\ ev' = Event("idle", None, "")
    /\ UNCHANGED <<app, last_checkout, settings_json, menu_xlsx, sales_csv, orders_csv,
                   daily_csv, invoices, form, env, now, smtp, persisted, fn>>

\* mutation of MeetValidate: only the name is required
MeetValidate_name_only(in) ==
    IF in.name = T0 THEN "Name and Phone are required." ELSE ""

\* tab_cart, checkout form: the error the submitted fields get, "" when there is none
MeetValidate(in) ==
    IF in.name = T0 \/ in.phone = T0 THEN "Name and Phone are required." ELSE ""

\* tab_cart: the "Checkout" button of the checkout form
MeetCheckout(in) ==
    /\ app = "meet"
    /\ CartViewShown
    /\ \A j \in 1..Len(cart) : LookupOk(cart[j])
    /\ IF MeetValidate(in) # ""
       THEN /\ ev' = Event("checkout", Some(in), MeetValidate(in))
            /\ UNCHANGED <<sales_csv, invoices, last_checkout, persisted, now, hist>>
       ELSE \E t \in ClockReads :
            LET order_id == order_id_at(t)
                cust == [name |-> in.name, phone |-> in.phone, email |-> in.email,
                         addr |-> in.addr]
                totals == totals_of(cart, load_settings)
                inv == build_invoice_excel(order_id, cart, totals, cust, t)
                pdf == build_receipt_pdf(order_id, cart, totals, cust)
            IN  /\ persisted' = persisted + 1
                /\ hist' = [hist EXCEPT !.placed = @ + 1]
                /\ now' = t
                /\ sales_csv' = save_sale(sales_csv, order_id, cart, totals, cust, t)
                /\ invoices' = WriteFile(invoices, inv)
                /\ IF pdf.raised
                   THEN /\ last_checkout' = last_checkout
                        /\ ev' = Event("checkout", Some(in), "ImportError")
                   ELSE /\ last_checkout' =
                              Some([order_id |-> order_id, customer |-> cust,
                                    totals |-> totals, invoice_bytes |-> inv.bytes,
                                    pdf_buf |-> pdf.value])
                        /\ ev' = Event("checkout", Some(in), "")
    /\ UNCHANGED <<app, cart, settings_json, menu_xlsx, orders_csv, daily_csv, form, env,
                   smtp, fn>>

\* tab_cart: the "Email Receipt to Customer" button of the placed order
MeetEmail(relay_ok) ==
    /\ app = "meet"
    /\ last_checkout # None
    /\ Get(last_checkout).customer.email # T0
    /\ smtp.conns < MaxMail
    /\ LET r == send_email_receipt(Some(Get(last_checkout).customer.email),
                                   load_settings.sender_email,
                                   load_settings.sender_password, relay_ok)
       IN  /\ smtp' = [conns |-> smtp.conns + (IF r.connected THEN 1 ELSE 0),
                       sent |-> smtp.sent + (IF r.sent THEN 1 ELSE 0)]
           /\ ev' = Event("email", None, IF r.ret THEN "Email sent" ELSE r.msg)
    /\ UNCHANGED <<app, cart, last_checkout, settings_json, menu_xlsx, sales_csv,
                   orders_csv, daily_csv, invoices, form, env, now, persisted, fn, hist>>

\* tab_cart: the "New Order" button of the placed order
MeetNewOrder ==
    /\ app = "meet"
    /\ last_checkout # None
    /\ cart' = <<>>
    /\ hist' = [hist EXCEPT !.placed = 0]
    /\ last_checkout' = None
    /\ ev' = Event("idle", None, "")
    /\ UNCHANGED <<app, settings_json, menu_xlsx, sales_csv, orders_csv, daily_csv,
                   invoices, form, env, now, smtp, persisted, fn>>

\* tab_cart raised no exception, so the run goes on to tab_admin
TabCartRenders == last_checkout # None \/ \A j \in 1..Len(cart) : LookupOk(cart[j])

\* tab_admin: the settings inputs and "Save Settings", shown when the password matches
MeetSaveSettings(pw, s) ==
    /\ app = "meet"
    /\ TabCartRenders
    /\ pw = ADMIN_PASSWORD
    /\ settings_json' = Some(s)
    /\ ev' = Event("admin", Some([pw |-> pw]), "Settings saved")
    /\ UNCHANGED <<app, cart, last_checkout, menu_xlsx, sales_csv, orders_csv, daily_csv,
                   invoices, form, env, now, smtp, persisted, fn, hist>>

\* the catalog the run after st.rerun() works with: load_menu() of the file, or the
\* sample catalog, written back to the file, when load_menu() raises
reload(file) == IF file.valid THEN file.rows ELSE create_sample_menu

\* tab_admin: a file is dropped on the uploader (there is one in either branch)
MeetUpload(pw, file) ==
    /\ app = "meet"
    /\ TabCartRenders
    /\ menu_xlsx' = reload(file)
    /\ ev' = Event("admin", Some([pw |-> pw]),
                   IF pw = ADMIN_PASSWORD THEN "Product list updated!"
                   ELSE "Product Excel replaced. Reloading...")
    /\ UNCHANGED <<app, cart, last_checkout, settings_json, sales_csv, orders_csv, daily_csv,
                   invoices, form, env, now, smtp, persisted, fn>>
    /\ hist' = [hist EXCEPT !.catalog_writes = @ + 1]

\* tab_admin: "Add Product".  With the password it is the expander's button, which
\* refuses an empty name; without it, it is add_product_form, which calls
\* DataFrame.append (has_append: the installed pandas still has it) on a catalog that
\* has rows
MeetAddProduct(pw, row, has_append) ==
    /\ app = "meet"
    /\ TabCartRenders
    /\ Len(menu_xlsx) < MaxMenu
    /\ IF pw = ADMIN_PASSWORD
       THEN IF row.Item # ""
            THEN /\ menu_xlsx' = Append(menu_xlsx, row)
                 /\ ev' = Event("admin", Some([pw |-> pw]), "added successfully!")
            ELSE /\ menu_xlsx' = menu_xlsx
                 /\ ev' = Event("admin", Some([pw |-> pw]), "Item Name cannot be empty")
       ELSE IF Len(menu_xlsx) > 0 /\ ~has_append
            THEN /\ menu_xlsx' = menu_xlsx
                 /\ ev' = Event("admin", Some([pw |-> pw]), "AttributeError")
            ELSE /\ menu_xlsx' = Append(menu_xlsx, row)
                 /\ ev' = Event("admin", Some([pw |-> pw]), "Product added and Excel updated.")
    /\ UNCHANGED <<app, cart, last_checkout, settings_json, sales_csv, orders_csv, daily_csv,
                   invoices, form, env, now, smtp, persisted, fn>>
    /\ hist' = IF menu_xlsx' # menu_xlsx THEN [hist EXCEPT !.catalog_writes = @ + 1] ELSE hist

\* tab_admin, edit_product_form: "Update Product" of row idx, shown without the password
MeetUpdateProduct(pw, idx, row) ==
    /\ app = "meet"
    /\ TabCartRenders
    /\ pw # ADMIN_PASSWORD
    /\ idx \in 1..Len(menu_xlsx)
    /\ menu_xlsx' = [menu_xlsx EXCEPT ![idx] = row]
    /\ ev' = Event("admin", Some([pw |-> pw]), "Product updated and Excel updated.")
    /\ UNCHANGED <<app, cart, last_checkout, settings_json, sales_csv, orders_csv, daily_csv,
                   invoices, form, env, now, smtp, persisted, fn>>
    /\ hist' = [hist EXCEPT !.catalog_writes = @ + 1]

\* tab_admin, edit_product_form: "Delete Product" of row idx; no code handles delete_btn
MeetDeleteProduct(pw, idx) ==
    /\ app = "meet"
    /\ TabCartRenders
    /\ pw # ADMIN_PASSWORD
    /\ idx \in 1..Len(menu_xlsx)
    /\ ev' = Event("admin", Some([pw |-> pw]), "")
    /\ UNCHANGED <<app, cart, last_checkout, settings_json, menu_xlsx, sales_csv, orders_csv,
                   daily_csv, invoices, form, env, now, smtp, persisted, hist, fn>>

\* tab_admin: "Restore sample products", offered without the password on an empty catalog
MeetRestoreSample(pw) ==
    /\ app = "meet"
    /\ TabCartRenders
    /\ pw # ADMIN_PASSWORD
    /\ Len(menu_xlsx) = 0
    /\ menu_xlsx' = create_sample_menu
    /\ ev' = Event("admin", Some([pw |-> pw]), "Sample products restored.")
    /\ UNCHANGED <<app, cart, last_checkout, settings_json, sales_csv, orders_csv, daily_csv,
                   invoices, form, env, now, smtp, persisted, fn>>
    /\ hist' = [hist EXCEPT !.catalog_writes = @ + 1]

----------------------------------------------------------------------------
(* fashion_store_app.py *)

store_products ==
    << [name |-> "T-Shirt", price |-> 20, image |-> "tshirt"],
       [name |-> "Jeans", price |-> 50, image |-> "jeans"],
       [name |-> "Sneakers", price |-> 80, image |-> "sneakers"] >>

ORDER_KEYS == <<"Name", "Phone", "Email", "Address", "Total", "Date">>

\* csv.DictWriter on a file opened in append mode: the header only when the file did not
\* exist, then the values of the dict in the order of its keys
dict_append(file, keys, row) ==
    LET line == [j \in 1..Len(keys) |-> row[keys[j]]]
    IN  IF file = None
        THEN Some([header |-> keys, lines |-> <<line>>])
        ELSE Some([header |-> Get(file).header, lines |-> Append(Get(file).lines, line)])

\* save_order: for file in [daily_file, all_file]: open, write.  failing: the targets whose
\* open() raises; the exception leaves the loop and the function
save_order(daily, master, order_data, failing) ==
    IF "daily" \in failing
    THEN [daily |-> daily, master |-> master, attempted |-> {"daily"},
          failed |-> {"daily"}, raised |-> TRUE]
    ELSE IF "master" \in failing
    THEN [daily |-> dict_append(daily, ORDER_KEYS, order_data), master |-> master,
          attempted |-> {"daily", "master"}, failed |-> {"master"}, raised |-> TRUE]
    ELSE [daily |-> dict_append(daily, ORDER_KEYS, order_data),
          master |-> dict_append(master, ORDER_KEYS, order_data),
          attempted |-> {"daily", "master"}, failed |-> {}, raised |-> FALSE]

\* create_invoice(order_data, items, "invoice.xlsx")
create_invoice(order_data, items) ==
    [path |-> <<"invoice.xlsx">>, bytes |-> [Items |-> items, InvoiceMeta |-> order_data]]

store_total(c) == SumSeq([i \in 1..Len(c) |-> c[i].price * c[i].qty])

\* mutation of StoreValidate: the cart is not looked at
StoreValidate_no_cart_check(c, f) ==
    IF strip(f.name) = T0 \/ strip(f.phone) = T0 \/ strip(f.email) = T0
       \/ strip(f.addr) = T0
    THEN "All fields are required!"
    ELSE ""

\* checkout(): the error of its two early returns, "" when it goes on
StoreValidate(c, f) ==
    IF c = <<>> THEN "Cart is empty!"
    ELSE IF strip(f.name) = T0 \/ strip(f.phone) = T0 \/ strip(f.email) = T0
            \/ strip(f.addr) = T0
    THEN "All fields are required!"
    ELSE ""

\* Checkout page: the customer has a payment method m and a reference r in mind; the
\* page has no input for either, so they are part of the event and of nothing else
WithPayment(f, m, r) ==
    [name |-> f.name, phone |-> f.phone, email |-> f.email, addr |-> f.addr,
     pay_method |-> m, pay_ref |-> r]

\* checkout(), with the customer_* inputs f.  failing: the order files that cannot be
\* opened; relay_ok: the relay accepts the login and the message
checkout(f, m, r) ==
    LET in == Some(WithPayment(f, m, r))
    IN
    IF StoreValidate(cart, f) # ""
    THEN /\ ev' = Event("checkout", in, StoreValidate(cart, f))
         /\ UNCHANGED <<cart, orders_csv, daily_csv, invoices, smtp, persisted, now, hist>>
    ELSE \E t \in ClockReads : \E failing \in Failures : \E relay_ok \in BOOLEAN :
         LET order_data ==
                 [k \in Range(ORDER_KEYS) |->
                    CASE k = "Name" -> Str(strip(f.name))
                      [] k = "Phone" -> Str(strip(f.phone))
                      [] k = "Email" -> Str(strip(f.email))
                      [] k = "Address" -> Str(strip(f.addr))
                      [] k = "Total" -> Num(store_total(cart))
                      [] k = "Date" -> Time(t)]
             saved == save_order(daily_csv, orders_csv, order_data, failing)
             mail_ok == relay_ok /\ env.EMAIL_ADDRESS # T0 /\ env.EMAIL_PASSWORD # T0
         IN  /\ persisted' = persisted + 1
             /\ now' = t
             /\ daily_csv' = saved.daily
             /\ orders_csv' = saved.master
             /\ IF saved.raised
                THEN /\ ev' = [Event("checkout", in, "OSError") EXCEPT
                                  !.attempted = saved.attempted, !.failed = saved.failed]
                     /\ hist' = IF saved.daily # daily_csv
                                THEN [hist EXCEPT !.placed = @ + 1] ELSE hist
                     /\ UNCHANGED <<cart, invoices, smtp>>
                ELSE /\ invoices' = WriteFile(invoices, create_invoice(order_data, cart))
                     /\ hist' = IF mail_ok THEN [hist EXCEPT !.placed = 0]
                                ELSE [hist EXCEPT !.placed = @ + 1]
                     /\ smtp' = [conns |-> smtp.conns + 1,
                                 sent |-> smtp.sent + (IF mail_ok THEN 1 ELSE 0)]
                     /\ cart' = IF mail_ok THEN <<>> ELSE cart
                     /\ ev' = [Event("checkout", in,
                                     IF mail_ok THEN "Order placed successfully!"
                                     ELSE "SMTPException") EXCEPT
                                  !.attempted = saved.attempted, !.failed = saved.failed]

\* the widgets of the Checkout page as they are first rendered: value=""
EmptyForm(page) == [page |-> page, name |-> T0, phone |-> T0, email |-> T0, addr |-> T0]

\* the sidebar radio "Go to".  A text input that a run does not render loses its
\* session_state entry, so the Checkout page starts empty whenever it is entered
StoreGoTo(page) ==
    /\ app = "store"
    /\ page # form.page
    /\ form' = EmptyForm(page)
    /\ ev' = Event("idle", None, "")
    /\ UNCHANGED <<app, cart, last_checkout, settings_json, menu_xlsx, sales_csv,
                   orders_csv, daily_csv, invoices, env, now, smtp, persisted, fn, hist>>

\* Shop page: the "Add <name>" button with qty in the number input
StoreAdd(idx, qty) ==
    /\ app = "store"
    /\ form.page = "Shop"
    /\ Len(cart) < MaxCart
    /\ cart' = IF qty > 0
               THEN Append(cart, [name |-> store_products[idx].name,
                                  price |-> store_products[idx].price,
                                  image |-> store_products[idx].image, qty |-> qty])
               ELSE cart
    /\ hist' = IF qty > 0 THEN [hist EXCEPT !.placed = 0] ELSE hist
    /\ ev' = Event("idle", None, "")
    /\ UNCHANGED <<app, last_checkout, settings_json, menu_xlsx, sales_csv, orders_csv,
                   daily_csv, invoices, form, env, now, smtp, persisted, fn>>

\* Checkout page: Name, Phone or Email is edited
StoreType(field, v) ==
    /\ app = "store"
    /\ form.page = "Checkout"
    /\ form[field] # v
    /\ form' = [form EXCEPT ![field] = v]
    /\ ev' = Event("idle", None, "")
    /\ UNCHANGED <<app, cart, last_checkout, settings_json, menu_xlsx, sales_csv,
                   orders_csv, daily_csv, invoices, env, now, smtp, persisted, fn, hist>>

\* Checkout page: Address is edited, and its on_change callback runs checkout()
StoreTypeAddress(v, m, r) ==
    /\ app = "store"
    /\ form.page = "Checkout"
    /\ form.addr # v
    /\ form' = [form EXCEPT !.addr = v]
    /\ checkout(form', m, r)
    /\ UNCHANGED <<app, last_checkout, settings_json, menu_xlsx, sales_csv, env, fn>>

\* Checkout page: the "Submit Order" button
StoreSubmit(m, r) ==
    /\ app = "store"
    /\ form.page = "Checkout"
    /\ checkout(form, m, r)
    /\ UNCHANGED <<app, last_checkout, settings_json, menu_xlsx, sales_csv, form, env, fn>>

----------------------------------------------------------------------------
(* The two programs *)

PayInputs == {<<"cod", T0>>, <<"upi", T0>>, <<"upi", TXN>>}


NoEnv == [EMAIL_ADDRESS |-> T0, EMAIL_PASSWORD |-> T0, reportlab |-> FALSE]

InitCommon ==
    /\ cart = <<>>
    /\ last_checkout = None
    /\ settings_json = None
    /\ menu_xlsx = create_sample_menu
    /\ invoices = {}
    /\ daily_csv = None
    /\ form = EmptyForm("Shop")
    /\ now = 0
    /\ smtp = [conns |-> 0, sent |-> 0]
    /\ persisted = 0
    /\ hist = [placed |-> 0, catalog_writes |-> 0]
    /\ ev = Event("init", None, "")

InitMeet ==
    /\ app = "meet"
    /\ InitCommon
    /\ sales_csv \in {None, Some(LegacySales)}
    /\ orders_csv = None
    /\ env \in {[NoEnv EXCEPT !.reportlab = b] : b \in BOOLEAN}
    /\ fn = None

InitStore ==
    /\ app = "store"
    /\ InitCommon
    /\ sales_csv = None
    /\ orders_csv \in {None, Some(LegacyOrders)}
    /\ env \in {NoEnv, [NoEnv EXCEPT !.EMAIL_ADDRESS = MAIL, !.EMAIL_PASSWORD = T2("p", "w")]}
    /\ fn = None

Init == InitMeet \/ InitStore

MeetAddStep == \E idx \in 1..Len(products) : \E sel \in Range(parse_sizes(products[idx].Size)) :
                   MeetAdd(idx, sel)
MeetDeleteStep == \E i \in 1..MaxCart : MeetDelete(i)
MeetCheckoutStep ==
    \E in \in CheckoutInputs :
        /\ MeetValidate(in) = "" => persisted < MaxOrders
        /\ MeetCheckout(in)
MeetEmailStep == \E relay_ok \in BOOLEAN : MeetEmail(relay_ok)
MeetSaveSettingsStep == \E pw \in Passwords : \E s \in SettingsInputs : MeetSaveSettings(pw, s)
StoreGoToStep == \E page \in {"Shop", "Checkout", "Admin"} : StoreGoTo(page)
StoreAddStep == \E idx \in 1..Len(store_products) : \E qty \in Qtys : StoreAdd(idx, qty)
StoreTypeStep ==
    \E field \in {"name", "phone", "email"} :
        \E v \in {T0, [name |-> ASHA, phone |-> PHONE, email |-> MAIL][field]} :
            StoreType(field, v)
StoreTypeAddressStep ==
    \E v \in Typed : \E p \in PayInputs :
        /\ StoreValidate(cart, [form EXCEPT !.addr = v]) = "" => persisted < MaxOrders
        /\ StoreTypeAddress(v, p[1], p[2])
StoreSubmitStep ==
    \E p \in PayInputs :
        /\ StoreValidate(cart, form) = "" => persisted < MaxOrders
        /\ StoreSubmit(p[1], p[2])

Next ==
    \/ MeetAddStep
    \/ MeetDeleteStep
    \/ MeetCheckoutStep
    \/ MeetEmailStep
    \/ MeetNewOrder
    \/ MeetSaveSettingsStep
    \/ StoreGoToStep
    \/ StoreAddStep
    \/ StoreTypeStep
    \/ StoreTypeAddressStep
    \/ StoreSubmitStep

Spec == Init /\ [][Next]_vars

----------------------------------------------------------------------------
(* Sessions in which more than one checkout reaches persistence *)

FullInput == Input(ASHA, PHONE, MAIL, PUNE, "cod", T0)

InitOrders ==
    /\ InitCommon
    /\ sales_csv = None
    /\ orders_csv = None
    /\ fn = None
    /\ \/ /\ app = "meet"
          /\ env = [NoEnv EXCEPT !.reportlab = TRUE]
       \/ /\ app = "store"
          /\ env \in {NoEnv, [NoEnv EXCEPT !.EMAIL_ADDRESS = MAIL,
                                           !.EMAIL_PASSWORD = T2("p", "w")]}

MeetCheckoutAgain == persisted < MaxRepeat /\ MeetCheckout(FullInput)
StoreTypeAddressAgain ==
    \E v \in {T0, PUNE} :
        /\ StoreValidate(cart, [form EXCEPT !.addr = v]) = "" => persisted < MaxRepeat
        /\ StoreTypeAddress(v, "cod", T0)
StoreSubmitAgain ==
    /\ StoreValidate(cart, form) = "" => persisted < MaxRepeat
    /\ StoreSubmit("cod", T0)

NextOrders ==
    \/ MeetAddStep
    \/ MeetDeleteStep
    \/ MeetCheckoutAgain
    \/ MeetEmailStep
    \/ MeetNewOrder
    \/ StoreGoToStep
    \/ StoreAddStep
    \/ StoreTypeStep
    \/ StoreTypeAddressAgain
    \/ StoreSubmitAgain

SpecOrders == InitOrders /\ [][NextOrders]_vars

----------------------------------------------------------------------------
(* Sessions in which the catalog is administered *)

\* the rows an administrator enters: the Kurti repriced, the Kurti renamed, a row with
\* no name
ProductInputs ==
    { [Item |-> "Kurti", Size |-> T4("L", "-", "X", "L"), Price |-> 700],
      [Item |-> "Kurta", Size |-> T4("L", "-", "X", "L"), Price |-> 615],
      [Item |-> "", Size |-> T0, Price |-> 0] }

\* the files dropped on the uploader: a one-row catalog, an empty catalog, and a file
\* load_menu() cannot read (no Item / Size / Price columns, or not a workbook)
UploadFiles ==
    { [valid |-> TRUE, rows |-> << [Item |-> "Kurti", Size |-> T1("L"), Price |-> 700] >>],
      [valid |-> TRUE, rows |-> <<>>],
      [valid |-> FALSE, rows |-> <<>>] }

\* the password typed into the Admin Panel: none, or the right one
AdminPasswords == {"", "admin123"}

InitCatalog ==
    /\ app = "meet"
    /\ InitCommon
    /\ sales_csv = None
    /\ orders_csv = None
    /\ env = [NoEnv EXCEPT !.reportlab = TRUE]
    /\ fn = None

MeetCheckoutOnce == persisted < MaxOrders /\ MeetCheckout(FullInput)
MeetAddFirstSize ==
    \E idx \in 1..Len(products) :
        /\ parse_sizes(products[idx].Size) # <<>>
        /\ MeetAdd(idx, Head(parse_sizes(products[idx].Size)))
MeetUploadStep ==
    \E pw \in AdminPasswords : \E file \in UploadFiles :
        /\ hist.catalog_writes < MaxCatalogWrites
        /\ MeetUpload(pw, file)
MeetAddProductStep ==
    \E pw \in AdminPasswords : \E row \in ProductInputs : \E has_append \in BOOLEAN :
        /\ hist.catalog_writes < MaxCatalogWrites
        /\ MeetAddProduct(pw, row, has_append)
MeetUpdateProductStep ==
    \E pw \in AdminPasswords : \E idx \in 1..MaxMenu : \E row \in ProductInputs :
        /\ hist.catalog_writes < MaxCatalogWrites
        /\ MeetUpdateProduct(pw, idx, row)
MeetDeleteProductStep ==
    \E pw \in AdminPasswords : \E idx \in 1..MaxMenu : MeetDeleteProduct(pw, idx)
MeetRestoreSampleStep ==
    \E pw \in AdminPasswords :
        /\ hist.catalog_writes < MaxCatalogWrites
        /\ MeetRestoreSample(pw)
MeetSaveSettingsAdmin ==
    \E pw \in AdminPasswords : \E s \in SettingsInputs : MeetSaveSettings(pw, s)

NextCatalog ==
    \/ MeetAddFirstSize
    \/ MeetDeleteStep
    \/ MeetCheckoutOnce
    \/ MeetNewOrder
    \/ MeetSaveSettingsAdmin
    \/ MeetUploadStep
    \/ MeetAddProductStep
    \/ MeetUpdateProductStep
    \/ MeetDeleteProductStep
    \/ MeetRestoreSampleStep

SpecCatalog == InitCatalog /\ [][NextCatalog]_vars

----------------------------------------------------------------------------
(* parse_sizes, applied to the Size cell of a catalog row, as tab_shop does *)

SizeChars == {"L", "X", ",", "-", " "}

SizeStrings ==
    UNION {[1..k -> SizeChars] : k \in 0..MaxLen}
    \cup {<<"M", ",", "L", ",", "X", "L">>, FREE}

InitSizes ==
    /\ app = "sizes"
    /\ InitCommon
    /\ sales_csv = None
    /\ orders_csv = None
    /\ env = NoEnv
    /\ fn \in {[arg |-> s, done |-> FALSE, ret |-> <<>>] : s \in SizeStrings}

\* tab_shop: sizes = parse_sizes(p.get("Size", ""))
CallParseSizes ==
    /\ app = "sizes"
    /\ ~fn.done
    /\ fn' = [fn EXCEPT !.done = TRUE, !.ret = parse_sizes(fn.arg)]
    /\ UNCHANGED <<app, cart, last_checkout, settings_json, menu_xlsx, sales_csv,
                   orders_csv, daily_csv, invoices, form, env, now, smtp, persisted, ev, hist>>

SpecSizes == InitSizes /\ [][CallParseSizes]_vars

----------------------------------------------------------------------------
(* send_email_receipt, called with any arguments *)

MailArgs ==
    [to_email : {None, Some(T0), Some(MAIL)},
     sender_email : {T0, MAIL},
     sender_password : {T0, T2("p", "w")},
     pdf_bytes : {T0, T3("P", "D", "F")},
     smtp_port : {"587", "465"},
     relay_ok : BOOLEAN]

InitMail ==
    /\ app = "mail"
    /\ InitCommon
    /\ sales_csv = None
    /\ orders_csv = None
    /\ env = NoEnv
    /\ fn \in {[arg |-> a, done |-> FALSE, ret |-> FALSE, msg |-> ""] : a \in MailArgs}

CallSendEmailReceipt ==
    /\ app = "mail"
    /\ ~fn.done
    /\ LET r == send_email_receipt(fn.arg.to_email, fn.arg.sender_email,
                                   fn.arg.sender_password, fn.arg.relay_ok)
       IN  /\ fn' = [fn EXCEPT !.done = TRUE, !.ret = r.ret, !.msg = r.msg]
           /\ smtp' = [conns |-> smtp.conns + (IF r.connected THEN 1 ELSE 0),
                       sent |-> smtp.sent + (IF r.sent THEN 1 ELSE 0)]
    /\ UNCHANGED <<app, cart, last_checkout, settings_json, menu_xlsx, sales_csv,
                   orders_csv, daily_csv, invoices, form, env, now, persisted, ev, hist>>

SpecMail == InitMail /\ [][CallSendEmailReceipt]_vars

----------------------------------------------------------------------------
(* Properties *)

\* the step is a checkout attempt: a submitted checkout form (Meet_app) or a call of
\* checkout() (fashion_store_app)
CheckoutStep == ev'.kind = "checkout"

Submitted == Get(ev'.input)

\* nothing is persisted, rendered or sent, and the session keeps its cart and bundle
NoSideEffects ==
    UNCHANGED <<sales_csv, orders_csv, daily_csv, invoices, smtp, cart, last_checkout>>

Blank(s) == \A i \in 1..Len(s) : s[i] = " "

\* C1: a checkout attempt with an empty cart fails validation and has no side effect.
\* In Meet_app the checkout form is not offered while the cart is empty, so no attempt
\* exists there; in fashion_store_app checkout() shows "Cart is empty!" and returns.
C1_EmptyCartCheckout ==
    [][(CheckoutStep /\ cart = <<>>) =>
          /\ app = "store"
          /\ ev'.msg = "Cart is empty!"
          /\ NoSideEffects]_vars

C1_Witness ==
    /\ ev.kind = "checkout"
    /\ ev.msg = "Cart is empty!"
    /\ cart = <<>>
    /\ Get(ev.input).name = ASHA /\ Get(ev.input).addr = PUNE

\* C2: the totals stored in the order bundle at a Meet_app checkout are those of the
\* cart and of the rates in effect at that checkout: subtotal = sum of the line prices,
\* tax = subtotal * taxRate / 100, discount = subtotal * discountRate / 100,
\* grand = subtotal + tax - discount (amounts in hundredths).
C2_Totals ==
    [][(app = "meet" /\ last_checkout = None /\ last_checkout' # None) =>
          LET t == Get(last_checkout').totals
              rates == load_settings
          IN  /\ cart # <<>>
              /\ t.subtotal = 100 * SumSeq([i \in 1..Len(cart) |-> cart[i].price])
              /\ 100 * t.tax = t.subtotal * rates.tax_rate
              /\ 100 * t.discount = t.subtotal * rates.default_discount
              /\ t.grand = t.subtotal + t.tax - t.discount]_vars

\* one Saree at 1200, tax 5, discount 0: 1200.00 / 60.00 / 0.00 / 1260.00
C2_Witness ==
    /\ last_checkout # None
    /\ Get(last_checkout).totals =
          [subtotal |-> 120000, tax |-> 6000, discount |-> 0, grand |-> 126000]
    /\ Len(Get(last_checkout).invoice_bytes.Items) = 1

\* C3: with the manual-transfer payment method, a checkout with an empty payment
\* reference fails validation and persists nothing; with a reference it succeeds and
\* the order carries a payment-status note.
ValidationErrors ==
    {"Name and Phone are required.", "Cart is empty!", "All fields are required!",
     "Payment reference is required."}

C3_ManualTransferReference ==
    [][CheckoutStep =>
          /\ (Submitted.pay_method = "upi" /\ Submitted.pay_ref = T0) =>
                (ev'.msg \in ValidationErrors /\ NoSideEffects)
          /\ (app = "meet" /\ Submitted.name # T0 /\ Submitted.phone # T0
              /\ ~(Submitted.pay_method = "upi" /\ Submitted.pay_ref = T0)) =>
                /\ last_checkout' # None
                /\ "payment_status" \in DOMAIN Get(last_checkout')
                /\ (Get(last_checkout').payment_status # T0)
                      <=> (Submitted.pay_method = "upi")]_vars

\* C4: appending to an existing sales-record file whose columns differ from the new
\* record's gives the union of the columns, empty fields where a row has no value, the
\* old rows unchanged under their columns, and old + new rows.
Merged(old, new, cols, n) ==
    /\ Range(new.header) = Range(old.header) \cup Range(cols)
    /\ Len(new.header) = Cardinality(Range(new.header))
    /\ Len(new.lines) = Len(old.lines) + n
    /\ \A i \in 1..Len(new.lines) : Len(new.lines[i]) = Len(new.header)
    /\ \A i \in 1..Len(old.lines) : \A j \in 1..Len(new.header) :
          new.lines[i][j] = IF new.header[j] \in Range(old.header)
                            THEN old.lines[i][IndexOf(old.header, new.header[j])]
                            ELSE NA
    /\ \A i \in (Len(old.lines) + 1)..Len(new.lines) : \A j \in 1..Len(new.header) :
          new.header[j] \notin Range(cols) => new.lines[i][j] = NA

AppendMerges(file, file2, cols, n) ==
    (file # None /\ file2 # file /\ Range(Get(file).header) # Range(cols)) =>
        Merged(Get(file), Get(file2), cols, n)

C4_AppendMergesColumns ==
    [][/\ AppendMerges(sales_csv, sales_csv', SALE_COLS, Len(cart))
       /\ AppendMerges(orders_csv, orders_csv', ORDER_KEYS, 1)
       /\ AppendMerges(daily_csv, daily_csv', ORDER_KEYS, 1)]_vars

\* C4, for save_sale alone (it holds there: pd.concat aligns the frames by column name)
C4_SaveSaleMerges == [][AppendMerges(sales_csv, sales_csv', SALE_COLS, Len(cart))]_vars

C4_SaveSaleWitness ==
    /\ sales_csv # None
    /\ Range(Get(sales_csv).header) = Range(SALE_COLS) \cup {"Amount"}
    /\ Len(Get(sales_csv).lines) = 1 + MaxCart

\* C5: send_email_receipt with an empty recipient, sender address or sender password
\* returns False and opens no connection to the relay, whatever the other arguments.
C5_NoConnectionOnMissingAddress ==
    (app = "mail" /\ fn.done
     /\ (fn.arg.to_email \in {None, Some(T0)} \/ fn.arg.sender_email = T0
         \/ fn.arg.sender_password = T0)) =>
        (fn.ret = FALSE /\ smtp.conns = 0 /\ smtp.sent = 0)

C5_Witness ==
    /\ app = "mail" /\ fn.done
    /\ fn.arg.to_email = Some(T0)
    /\ fn.arg.sender_email # T0 /\ fn.arg.sender_password # T0 /\ fn.arg.relay_ok
    /\ fn.ret = FALSE
    /\ smtp.conns = 0

\* C6: without reportlab, build_receipt_pdf returns None and raises nothing, and the
\* Meet_app checkout that called it completes: the sale is in sales_records.csv, the
\* invoice is on disk and the bundle is stored with no receipt.
C6_NoReceiptBackend ==
    [][(CheckoutStep /\ app = "meet" /\ ~env.reportlab
        /\ Submitted.name # T0 /\ Submitted.phone # T0) =>
          /\ ev'.msg = ""
          /\ last_checkout' # None
          /\ Get(last_checkout').pdf_buf = None
          /\ RowCount(sales_csv') > RowCount(sales_csv)
          /\ \E f \in invoices' :
                /\ f.path = <<"Invoice", Get(last_checkout').order_id>>
                /\ f.bytes = Get(last_checkout').invoice_bytes]_vars

C6_Witness ==
    /\ app = "meet" /\ ~env.reportlab
    /\ last_checkout # None
    /\ Get(last_checkout).pdf_buf = None
    /\ invoices # {}
    /\ RowCount(sales_csv) > 0

\* the pieces of s between the occurrences of d, by the positions of d
Cuts(s, d) == {0, Len(s) + 1} \cup {i \in 1..Len(s) : s[i] = d}

Trimmed(s) ==
    LET ink == {i \in 1..Len(s) : s[i] # " "}
    IN  IF ink = {} THEN <<>>
        ELSE SubSeq(s, CHOOSE i \in ink : \A j \in ink : i <= j,
                       CHOOSE i \in ink : \A j \in ink : i >= j)

\* toks is the list of the trimmed non-empty pieces of s between the d's, in order
IsTokenList(toks, s, d) ==
    LET starts == {a \in Cuts(s, d) : a <= Len(s)
                      /\ Trimmed(SubSeq(s, a + 1,
                            (CHOOSE b \in Cuts(s, d) : b > a /\
                                \A c \in Cuts(s, d) : c > a => b <= c) - 1)) # <<>>}
        piece(a) == Trimmed(SubSeq(s, a + 1,
                            (CHOOSE b \in Cuts(s, d) : b > a /\
                                \A c \in Cuts(s, d) : c > a => b <= c) - 1))
    IN  /\ Len(toks) = Cardinality(starts)
        /\ \A k \in 1..Len(toks) :
              \E a \in starts : /\ Cardinality({x \in starts : x < a}) = k - 1
                                /\ toks[k] = piece(a)

\* C7, as claimed: empty or blank gives ["Free"]; a string with commas gives its trimmed
\* non-empty comma tokens; a string with hyphens (and no comma) gives its trimmed
\* non-empty hyphen tokens; so every row has at least one selectable size.
C7_ParseSizesAsClaimed ==
    (app = "sizes" /\ fn.done) =>
        /\ Blank(fn.arg) => fn.ret = <<FREE>>
        /\ Contains(fn.arg, ",") => IsTokenList(fn.ret, fn.arg, ",")
        /\ (Contains(fn.arg, "-") /\ ~Contains(fn.arg, ",")) =>
              IsTokenList(fn.ret, fn.arg, "-")
        /\ fn.ret # <<>>

\* C7, amended: empty or blank gives ["Free"]; a string with a comma gives its trimmed
\* non-empty comma tokens, which are none when it holds only commas and blanks (the row
\* then has no selectable size); a string with a hyphen and no comma gives its trimmed
\* non-empty hyphen tokens, or itself, trimmed, when there are none; any other string
\* gives itself, trimmed.  Only the rows of commas and blanks have no selectable size.
C7_ParseSizes ==
    (app = "sizes" /\ fn.done) =>
        /\ Blank(fn.arg) => fn.ret = <<FREE>>
        /\ Contains(fn.arg, ",") => IsTokenList(fn.ret, fn.arg, ",")
        /\ (Contains(fn.arg, "-") /\ ~Contains(fn.arg, ",")) =>
              IF \A i \in 1..Len(fn.arg) : fn.arg[i] \in {"-", " "}
              THEN fn.ret = <<Trimmed(fn.arg)>>
              ELSE IsTokenList(fn.ret, fn.arg, "-")
        /\ (~Blank(fn.arg) /\ ~Contains(fn.arg, ",") /\ ~Contains(fn.arg, "-")) =>
              fn.ret = <<Trimmed(fn.arg)>>
        /\ (fn.ret = <<>>) <=>
              (~Blank(fn.arg) /\ \A i \in 1..Len(fn.arg) : fn.arg[i] \in {",", " "})
        /\ fn.arg = <<"M", ",", "L", ",", "X", "L">> =>
              fn.ret = <<T1("M"), T1("L"), T2("X", "L")>>
        /\ fn.arg = T4("L", "-", "X", "L") => fn.ret = <<T1("L"), T2("X", "L")>>

C7_Witness ==
    /\ app = "sizes" /\ fn.done
    /\ fn.arg = <<"M", ",", "L", ",", "X", "L">>
    /\ fn.ret = <<T1("M"), T1("L"), T2("X", "L")>>

\* C8: a checkout submitted with a required customer field missing (Meet_app: name or
\* phone empty; fashion_store_app: name, phone, email or address empty after trimming)
\* is aborted with an error and persists nothing.
MissingRequired ==
    IF app = "meet"
    THEN Submitted.name = <<>> \/ Submitted.phone = <<>>
    ELSE Blank(Submitted.name) \/ Blank(Submitted.phone) \/ Blank(Submitted.email)
         \/ Blank(Submitted.addr)

C8_MissingFieldAborts ==
    [][(CheckoutStep /\ MissingRequired) =>
          /\ ev'.msg \in ValidationErrors
          /\ NoSideEffects
          /\ persisted' = persisted]_vars

C8_Witness ==
    /\ app = "store"
    /\ ev.kind = "checkout"
    /\ ev.msg = "All fields are required!"
    /\ cart # <<>>
    /\ Get(ev.input).name = ASHA /\ Get(ev.input).phone = PHONE
    /\ Get(ev.input).email = MAIL /\ Get(ev.input).addr = T1(" ")

C8_WitnessMeet ==
    /\ app = "meet"
    /\ ev.kind = "checkout"
    /\ ev.msg = "Name and Phone are required."
    /\ Get(ev.input).name = ASHA /\ Get(ev.input).phone = T0

\* the step is a Meet_app checkout that stored its bundle
MeetPlaced == app = "meet" /\ last_checkout = None /\ last_checkout' # None

\* the step is a fashion_store_app checkout whose save_order wrote both files
StoreSaved ==
    app = "store" /\ CheckoutStep /\ ev'.attempted # {} /\ ev'.failed = {}

\* C9, as claimed: every successful checkout adds exactly one row to each sales-record
\* file it writes.
C9_OneRowPerOrder ==
    [][/\ MeetPlaced => RowCount(sales_csv') = RowCount(sales_csv) + 1
       /\ StoreSaved => /\ RowCount(orders_csv') = RowCount(orders_csv) + 1
                        /\ RowCount(daily_csv') = RowCount(daily_csv) + 1]_vars

\* C9, amended: a fashion_store_app checkout whose save_order completes adds exactly one
\* row to orders.csv and one to the daily file; a Meet_app checkout adds one row per cart
\* line to sales_records.csv, n rows for a cart of n lines, each with the order's id and
\* totals.
C9_RowsPerOrder ==
    [][/\ MeetPlaced =>
            /\ RowCount(sales_csv') = RowCount(sales_csv) + Len(cart)
            /\ \A i \in (RowCount(sales_csv) + 1)..RowCount(sales_csv') :
                  LET f == Get(sales_csv')
                      cell(c) == f.lines[i][IndexOf(f.header, c)]
                  IN  /\ cell("OrderID") = Get(last_checkout').order_id
                      /\ cell("Item") = Str(cart[i - RowCount(sales_csv)].item)
                      /\ cell("GrandTotal") = Num(Get(last_checkout').totals.grand)
       /\ StoreSaved => /\ RowCount(orders_csv') = RowCount(orders_csv) + 1
                        /\ RowCount(daily_csv') = RowCount(daily_csv) + 1]_vars

\* a cart of two lines was persisted by Meet_app as two rows
C9_Witness ==
    /\ app = "meet"
    /\ last_checkout # None
    /\ Len(Get(last_checkout).invoice_bytes.Items) = 2
    /\ sales_csv # None
    /\ Len(Get(sales_csv).lines) = 2

\* C10: when the write to one target of save_order fails, the write to the other target
\* is still attempted, and checkout() learns of the failed target.
C10_IndependentTargets ==
    (app = "store" /\ ev.kind = "checkout" /\ ev.failed # {}) =>
        /\ ev.attempted = {"daily", "master"}
        /\ ev.msg = "OSError"

\* C11: a mail failure aborts only the notification, not the order.  Once
\* fashion_store_app's save_order has completed, checkout() reports success and clears
\* the cart whether or not the mail could be sent; Meet_app's "Email Receipt" reports
\* its outcome as a message and leaves the placed order as it was.
C11_MailFailureKeepsOrder ==
    [][/\ StoreSaved => /\ ev'.msg = "Order placed successfully!"
                        /\ cart' = <<>>
       /\ (ev'.kind = "email") =>
             /\ ev'.msg \in {"Email sent", "Failed to send email",
                             "Sender email credentials are missing (set in Admin Panel)."}
             /\ UNCHANGED <<sales_csv, invoices, last_checkout, cart>>]_vars

\* C11, for Meet_app alone (it holds there: send_email_receipt catches every exception)
C11_MeetEmailContained ==
    [][(ev'.kind = "email") =>
          /\ ev'.msg \in {"Email sent", "Failed to send email",
                          "Sender email credentials are missing (set in Admin Panel)."}
          /\ UNCHANGED <<sales_csv, invoices, last_checkout, cart>>]_vars

\* C12: a checkout opens no connection to the mail relay; a connection is opened only by
\* the separate "Email Receipt" action on an order that is already placed.
C12_CheckoutNoNetwork ==
    [][/\ CheckoutStep => smtp' = smtp
       /\ smtp' # smtp => (ev'.kind = "email" /\ last_checkout # None)]_vars

\* C12, for Meet_app alone (it holds there)
C12_MeetCheckoutNoNetwork ==
    [][app = "meet" =>
          /\ CheckoutStep => smtp' = smtp
          /\ smtp' # smtp => (ev'.kind = "email" /\ last_checkout # None)]_vars

\* C13: the contents of one cart are persisted at most once: between two checkouts that
\* write to the sales records the cart has been changed by the user (a line added or
\* deleted, or the cart emptied).
C13_CartPersistedOnce == hist.placed <= 1

\* C13, for Meet_app alone (it holds there: the placed order hides the checkout form
\* until "New Order" empties the cart)
C13_MeetCartPersistedOnce == app = "meet" => hist.placed <= 1

\* str < str, for the text of two identifiers
RECURSIVE StrLess(_, _)
StrLess(a, b) ==
    IF a = <<>> THEN b # <<>>
    ELSE IF b = <<>> THEN FALSE
    ELSE IF Head(a) = Head(b) THEN StrLess(Tail(a), Tail(b))
    ELSE Head(a) < Head(b)

\* the identifier of the order the last line of sales_records.csv belongs to
LastOrderId ==
    LET f == Get(sales_csv)
    IN  f.lines[Len(f.lines)][IndexOf(f.header, "OrderID")]

InvoiceNames(dir) == {f.path : f \in dir}

\* C16, as claimed: the identifier of a later Meet_app checkout is strictly greater, as a
\* string, than that of every earlier one, so no two orders share an identifier or an
\* invoice file name.
C16_StrictlyIncreasingIds ==
    [][(MeetPlaced /\ sales_csv # None) =>
          /\ StrLess(LastOrderId, Get(last_checkout').order_id)
          /\ InvoiceNames(invoices') # InvoiceNames(invoices)]_vars

\* C16, amended: the identifiers never decrease; the later one is strictly greater
\* exactly when the checkouts fall in different seconds; two checkouts in the same
\* second get the same identifier and the same invoice file name, and the later invoice
\* replaces the earlier one.
C16_IdsBySecond ==
    [][(MeetPlaced /\ sales_csv # None) =>
          LET prev == LastOrderId
              new == Get(last_checkout').order_id
          IN  /\ ~StrLess(new, prev)
              /\ StrLess(prev, new) <=> now' > now
              /\ now' = now =>
                    /\ new = prev
                    /\ InvoiceNames(invoices') = InvoiceNames(invoices)
                    /\ Cardinality(invoices') = Cardinality(invoices)
              /\ now' > now => InvoiceNames(invoices') # InvoiceNames(invoices)]_vars

\* two orders were placed in the same second: one identifier, one invoice file
C16_Witness ==
    /\ app = "meet"
    /\ persisted = 2
    /\ now = 0
    /\ last_checkout # None
    /\ Cardinality(invoices) = 1
    /\ \A i \in 1..RowCount(sales_csv) :
          Get(sales_csv).lines[i][IndexOf(Get(sales_csv).header, "OrderID")]
             = Get(last_checkout).order_id

\* the step is an Admin Panel event handled with the admin password entered
WithPassword == ev'.kind = "admin" /\ Get(ev'.input).pw = ADMIN_PASSWORD

\* C14: the catalog file and the settings file change only in a run where the password
\* entered in the Admin Panel is the admin password.
C14_PasswordGated ==
    [][(menu_xlsx' # menu_xlsx \/ settings_json' # settings_json) => WithPassword]_vars

\* C14, for the settings alone (it holds there: the inputs and "Save Settings" are in the
\* password branch only)
C14_SettingsGated == [][settings_json' # settings_json => WithPassword]_vars

\* a catalog row of the line's name, at the line's price
PricedAt(menu, line) ==
    \E k \in 1..Len(menu) : menu[k].Item = line.item /\ menu[k].Price = line.price

\* C15: a cart line's price is frozen at add-time.  A line enters the cart at the price
\* its catalog row has in that run; no step changes a line that stays in the cart, so no
\* catalog operation does; and the subtotal stored at checkout is the sum of the lines'
\* prices, whatever the catalog says by then.
C15_PriceFrozen ==
    [][/\ Len(cart') = Len(cart) => cart' = cart
       /\ Len(cart') > Len(cart) =>
             /\ Len(cart') = Len(cart) + 1
             /\ SubSeq(cart', 1, Len(cart)) = cart
             /\ PricedAt(menu_xlsx, cart'[Len(cart')])
       /\ Len(cart') < Len(cart) =>
             \/ cart' = <<>>
             \/ \E i \in 1..Len(cart) :
                   cart' = SubSeq(cart, 1, i - 1) \o SubSeq(cart, i + 1, Len(cart))
       /\ menu_xlsx' # menu_xlsx => cart' = cart
       /\ MeetPlaced =>
             Get(last_checkout').totals.subtotal
                = 100 * SumSeq([i \in 1..Len(cart) |-> cart[i].price])]_vars

\* an order was placed for a Kurti added at 615 after the catalog repriced it to 700
C15_Witness ==
    /\ app = "meet"
    /\ last_checkout # None
    /\ cart = <<[item |-> "Kurti", size |-> T1("L"), price |-> 615]>>
    /\ \E k \in 1..Len(menu_xlsx) : menu_xlsx[k].Item = "Kurti" /\ menu_xlsx[k].Price = 700
    /\ ~PricedAt(menu_xlsx, cart[1])
    /\ Get(last_checkout).totals.subtotal = 61500

\* C17: every line of the cart names a row of the catalog as loaded, so the cart view's
\* per-line lookup finds a row whenever the view is rendered.
C17_CartLinesInCatalog ==
    (app = "meet" /\ CartViewShown) => \A j \in 1..Len(cart) : LookupOk(cart[j])

====
